---------------------------- MODULE Spec2Model ----------------------------
(***************************************************************************)
(* Beta update methods of the nonlinear conjugate gradient solver          *)
(* (argmin/src/solver/conjugategradient/beta.rs): FletcherReeves,          *)
(* PolakRibiere, PolakRibierePlus and HestenesStiefel, each an             *)
(* implementation of NLCGBetaUpdate::update(&self, dfk, dfk1, pk) -> F.    *)
(*                                                                         *)
(* The scalar type F is modelled as IEEE-754 binary64 (f64): a value is a  *)
(* NaN, a signed infinity, a signed zero, or (-1)^s * m * 2^e with a       *)
(* 53-bit significand m.  Division, square root, multiplication and        *)
(* subtraction round to nearest, ties to even, as the hardware does.  The  *)
(* exponent is unbounded: with the vector components the model draws, no   *)
(* result comes near the overflow or underflow threshold of f64.           *)
(*                                                                         *)
(* TLC's integers are 32 bits wide, so a significand is held as a pair     *)
(* <<hi, lo>> of 28-bit limbs (value hi * 2^28 + lo), and wider exact      *)
(* intermediate results as little-endian sequences of 28-bit limbs.        *)
(***************************************************************************)
EXTENDS Integers, Sequences, FiniteSets, TLC

\* ------------------------------------------------------------------------
\* Limb arithmetic
\* ------------------------------------------------------------------------

\* The number of significand bits of f64 (f64::MANTISSA_DIGITS).
MantBits == 53

\* The number of bits of one limb.
LimbBits == 28

\* 2^n for 0 <= n <= 30.
Pow2(n) ==
    << 1, 2, 4, 8, 16, 32, 64, 128, 256, 512, 1024, 2048, 4096, 8192, 16384,
       32768, 65536, 131072, 262144, 524288, 1048576, 2097152, 4194304,
       8388608, 16777216, 33554432, 67108864, 134217728, 268435456,
       536870912, 1073741824 >>[n + 1]

LimbBase == Pow2(LimbBits)

\* The number of bits of n >= 0 (0 for n = 0).
RECURSIVE BitLen(_)
BitLen(n) == IF n = 0 THEN 0 ELSE 1 + BitLen(n \div 2)

\* Pairs <<hi, lo>> have the value hi * 2^28 + lo, below 2^58.
WZero == <<0, 0>>

WOne == <<0, 1>>

\* The pair of value h * 2^27 + l, for 0 <= l < 2^31.
WNorm(h, l) == <<h + (l \div LimbBase), l % LimbBase>>

WAdd(a, b) == WNorm(a[1] + b[1], a[2] + b[2])

\* a - b for a >= b.
WSub(a, b) ==
    IF a[2] >= b[2] THEN <<a[1] - b[1], a[2] - b[2]>>
    ELSE <<a[1] - b[1] - 1, a[2] - b[2] + LimbBase>>

WGeq(a, b) == a[1] > b[1] \/ (a[1] = b[1] /\ a[2] >= b[2])

\* 2 * a + c and 4 * a + c, for a small c >= 0.
WTwice(a, c) == WNorm(2 * a[1], 2 * a[2] + c)

WFourfold(a, c) == WNorm(4 * a[1], 4 * a[2] + c)

WBitLen(a) == IF a[1] = 0 THEN BitLen(a[2]) ELSE LimbBits + BitLen(a[1])

\* a * 2^n for a value a * 2^n below 2^54.
WShl(a, n) ==
    IF n >= LimbBits THEN <<a[2] * Pow2(n - LimbBits), 0>>
    ELSE <<a[1] * Pow2(n) + (a[2] \div Pow2(LimbBits - n)),
           (a[2] % Pow2(LimbBits - n)) * Pow2(n)>>

\* floor(a / 2^n) for 0 <= n < 28.
WShr(a, n) ==
    <<a[1] \div Pow2(n), (a[1] % Pow2(n)) * Pow2(LimbBits - n) + (a[2] \div Pow2(n))>>

\* Little-endian limb sequences have the value Sum p[i] * 2^(28 * (i - 1)).
BigLen == 5

BigOfW(a) == [i \in 1..BigLen |-> IF i = 1 THEN a[2] ELSE IF i = 2 THEN a[1] ELSE 0]

BigIsZero(p) == \A i \in 1..BigLen : p[i] = 0

\* The index of the highest non-zero limb of p # 0.
BigTop(p) == CHOOSE i \in 1..BigLen : p[i] # 0 /\ \A j \in (i + 1)..BigLen : p[j] = 0

BigBitLen(p) == IF BigIsZero(p) THEN 0 ELSE LimbBits * (BigTop(p) - 1) + BitLen(p[BigTop(p)])

BigLimb(p, i) == IF i \in 1..BigLen THEN p[i] ELSE 0

\* p * 2^n (the result must fit BigLen limbs).
BigShl(p, n) ==
    [i \in 1..BigLen |->
        (BigLimb(p, i - (n \div LimbBits)) % Pow2(LimbBits - (n % LimbBits))) * Pow2(n % LimbBits)
        + (BigLimb(p, i - (n \div LimbBits) - 1) \div Pow2(LimbBits - (n % LimbBits)))]

\* floor(p / 2^n).
BigShr(p, n) ==
    [i \in 1..BigLen |->
        (BigLimb(p, i + (n \div LimbBits)) \div Pow2(n % LimbBits))
        + (BigLimb(p, i + (n \div LimbBits) + 1) % Pow2(n % LimbBits)) * Pow2(LimbBits - (n % LimbBits))]

\* p mod 2^n is not zero.
BigLowNonZero(p, n) ==
    \/ \E i \in 1..BigLen : i <= n \div LimbBits /\ p[i] # 0
    \/ BigLimb(p, (n \div LimbBits) + 1) % Pow2(n % LimbBits) # 0

\* The carry into limb i of p + q.
RECURSIVE BigCarry(_, _, _)
BigCarry(p, q, i) ==
    IF i = 1 THEN 0 ELSE (p[i - 1] + q[i - 1] + BigCarry(p, q, i - 1)) \div LimbBase

BigAdd(p, q) == [i \in 1..BigLen |-> (p[i] + q[i] + BigCarry(p, q, i)) % LimbBase]

\* The borrow into limb i of p - q.
RECURSIVE BigBorrow(_, _, _)
BigBorrow(p, q, i) ==
    IF i = 1 THEN 0
    ELSE IF p[i - 1] - q[i - 1] - BigBorrow(p, q, i - 1) < 0 THEN 1 ELSE 0

\* p - q for p >= q.
BigSub(p, q) ==
    [i \in 1..BigLen |-> (p[i] - q[i] - BigBorrow(p, q, i) + LimbBase) % LimbBase]

\* p >= q.
BigGeq(p, q) == BigBorrow(p, q, BigLen + 1) = 0

\* ------------------------------------------------------------------------
\* The scalar type F (f64)
\* ------------------------------------------------------------------------

NaN == [k |-> "nan", s |-> 0, m |-> WZero, e |-> 0]

Inf(s) == [k |-> "inf", s |-> s, m |-> WZero, e |-> 0]

Zero(s) == [k |-> "zero", s |-> s, m |-> WZero, e |-> 0]

\* (-1)^s * m * 2^e with 2^52 <= m < 2^53.
Fin(s, m, e) == [k |-> "fin", s |-> s, m |-> m, e |-> e]

IsFinite(x) == x.k \in {"zero", "fin"}

IsNaN(x) == x.k = "nan"

\* keep + 1 if up, keep otherwise, as a significand with its exponent.
RoundUp(s, keep, up, e) ==
    IF ~up THEN Fin(s, keep, e)
    ELSE IF WAdd(keep, WOne)[1] = Pow2(MantBits - LimbBits)
    THEN Fin(s, <<Pow2(MantBits - LimbBits - 1), 0>>, e + 1)
    ELSE Fin(s, WAdd(keep, WOne), e)

\* Round to nearest, ties to even: q has len > 53 bits, of which the low sh
\* are dropped.
RoundDrop(s, q, sticky, e, sh) ==
    RoundUp(s, WShr(q, sh),
            \/ q[2] % Pow2(sh) > Pow2(sh - 1)
            \/ /\ q[2] % Pow2(sh) = Pow2(sh - 1)
               /\ (sticky \/ WShr(q, sh)[2] % 2 = 1),
            e + sh)

\* The f64 nearest to (-1)^s * (q + f) * 2^e, where 0 < q < 2^58 is a pair
\* and 0 < f < 1 if sticky (then q has at least 55 bits), f = 0 otherwise.
RoundLen(s, q, sticky, e, len) ==
    IF len <= MantBits THEN Fin(s, WShl(q, MantBits - len), e - (MantBits - len))
    ELSE RoundDrop(s, q, sticky, e, len - MantBits)

RoundW(s, q, sticky, e) == RoundLen(s, q, sticky, e, WBitLen(q))

\* The same for a limb sequence p > 0 of any length.
RoundBigLen(s, p, sticky, e, len) ==
    IF len <= 2 * LimbBits THEN RoundW(s, <<p[2], p[1]>>, sticky, e)
    ELSE RoundW(s, <<BigShr(p, len - 2 * LimbBits)[2], BigShr(p, len - 2 * LimbBits)[1]>>,
                sticky \/ BigLowNonZero(p, len - 2 * LimbBits),
                e + (len - 2 * LimbBits))

RoundBig(s, p, sticky, e) == RoundBigLen(s, p, sticky, e, BigBitLen(p))

\* An integer n, |n| < 2^28, as an f64 (exact); 0 is +0.0.
FromAbs(s, a) == RoundW(s, <<0, a>>, FALSE, 0)

FromInt(n) == IF n = 0 THEN Zero(0) ELSE IF n < 0 THEN FromAbs(1, -n) ELSE FromAbs(0, n)

\* |x| < |y| for two values that are neither NaN nor zero.
MagLess(x, y) ==
    /\ x.k = "fin"
    /\ \/ y.k = "inf"
       \/ x.e < y.e
       \/ (x.e = y.e /\ ~WGeq(x.m, y.m))

\* -1, 0 or 1: the sign of a value that is not NaN (0 for -0.0 and +0.0).
Sgn(x) == IF x.k = "zero" THEN 0 ELSE IF x.s = 1 THEN -1 ELSE 1

\* The < of f64 (false when either side is NaN; -0.0 < +0.0 is false).
FLess(x, y) ==
    IF IsNaN(x) \/ IsNaN(y) THEN FALSE
    ELSE IF Sgn(x) # Sgn(y) THEN Sgn(x) < Sgn(y)
    ELSE IF Sgn(x) = 0 THEN FALSE
    ELSE IF Sgn(x) = 1 THEN MagLess(x, y)
    ELSE MagLess(y, x)

\* The == of f64: NaN equals nothing, -0.0 equals +0.0.
FEq(x, y) ==
    /\ ~IsNaN(x)
    /\ ~IsNaN(y)
    /\ \/ x.k = "zero" /\ y.k = "zero"
       \/ x = y

\* One step of long division: the remainder r2 (already doubled) against the
\* divisor b yields one more bit of the quotient q; n steps are left after it.
DivStep(q, r2, b, n) ==
    IF WGeq(r2, b) THEN <<WTwice(q, 1), WSub(r2, b), n>> ELSE <<WTwice(q, 0), r2, n>>

\* The state <<q, r, n>> (quotient so far, remainder, steps left) at the end.
RECURSIVE DivSteps(_, _)
DivSteps(st, b) ==
    IF st[3] = 0 THEN st ELSE DivSteps(DivStep(st[1], WTwice(st[2], 0), b, st[3] - 1), b)

\* The number of quotient bits computed after the leading one.
DivBits == 55

\* The quotient of two significands, rounded.
DivRound(s, qr, e) == RoundW(s, qr[1], qr[2] # WZero, e)

\* x / y of f64.
FDiv(x, y) ==
    IF IsNaN(x) \/ IsNaN(y) THEN NaN
    ELSE IF x.k = "inf" THEN (IF y.k = "inf" THEN NaN ELSE Inf((x.s + y.s) % 2))
    ELSE IF y.k = "inf" THEN Zero((x.s + y.s) % 2)
    ELSE IF y.k = "zero" THEN (IF x.k = "zero" THEN NaN ELSE Inf((x.s + y.s) % 2))
    ELSE IF x.k = "zero" THEN Zero((x.s + y.s) % 2)
    ELSE DivRound((x.s + y.s) % 2,
                  DivSteps(IF WGeq(x.m, y.m) THEN <<WOne, WSub(x.m, y.m), DivBits>>
                                                 ELSE <<WZero, x.m, DivBits>>,
                           y.m),
                  x.e - y.e - DivBits)

\* A radicand below 2^54 has its top two bits above TopTwo in the high limb.
TopTwo == Pow2(MantBits - 1 - LimbBits)

\* The number of bit pairs of a radicand below 2^54.
RadPairs == (MantBits + 1) \div 2

\* One step of the digit-by-digit square root: rest is the radicand without
\* its top two bits, rem2 the remainder with those two bits shifted in, trial
\* the value 4 * root + 1 to subtract from it; n steps are left after it.
SqrtStep(rest, root, rem2, trial, n) ==
    IF WGeq(rem2, trial) THEN <<rest, WTwice(root, 1), WSub(rem2, trial), n>>
    ELSE <<rest, WTwice(root, 0), rem2, n>>

\* The state <<x, root, rem, n>> at the end, for a radicand x < 2^54.
RECURSIVE SqrtSteps(_)
SqrtSteps(st) ==
    IF st[4] = 0 THEN st
    ELSE SqrtSteps(SqrtStep(WFourfold(<<st[1][1] % TopTwo, st[1][2]>>, 0),
                            st[2],
                            WFourfold(st[3], st[1][1] \div TopTwo),
                            WFourfold(st[2], 1),
                            st[4] - 1))

\* The number of root bits computed.
SqrtBits == 55

\* The root of a significand, rounded.
SqrtRound(st, e) == RoundW(0, st[2], st[3] # WZero, e)

\* x.sqrt() of f64.
FSqrt(x) ==
    IF IsNaN(x) THEN NaN
    ELSE IF x.k = "zero" THEN x
    ELSE IF x.s = 1 THEN NaN
    ELSE IF x.k = "inf" THEN x
    ELSE IF x.e % 2 = 1
    THEN SqrtRound(SqrtSteps(<<WTwice(x.m, 0), WZero, WZero, SqrtBits>>),
                   ((x.e - 1) \div 2) - (SqrtBits - RadPairs))
    ELSE SqrtRound(SqrtSteps(<<x.m, WZero, WZero, SqrtBits>>),
                   (x.e \div 2) - (SqrtBits - RadPairs))

\* -x of f64.
FNeg(x) == IF IsNaN(x) THEN x ELSE [x EXCEPT !.s = 1 - x.s]

\* The number of bits of half a limb, and its base.
HalfBits == LimbBits \div 2

HalfBase == Pow2(HalfBits)

\* The four half-limb digits of a pair, lowest first.
Halves(a) == <<a[2] % HalfBase, a[2] \div HalfBase, a[1] % HalfBase, a[1] \div HalfBase>>

\* Sum of d[i] * g[k + 1 - i] over the i >= from: column k of the product.
RECURSIVE MulColumn(_, _, _, _)
MulColumn(d, g, k, from) ==
    IF from > Len(d) THEN 0
    ELSE (IF k + 1 - from \in 1..Len(g) THEN d[from] * g[k + 1 - from] ELSE 0)
         + MulColumn(d, g, k, from + 1)

\* The carry into column k of the product.
RECURSIVE MulCarry(_, _, _)
MulCarry(d, g, k) ==
    IF k = 1 THEN 0
    ELSE (MulColumn(d, g, k - 1, 1) + MulCarry(d, g, k - 1)) \div HalfBase

\* Half-limb digit k of the product.
MulDigit(d, g, k) == (MulColumn(d, g, k, 1) + MulCarry(d, g, k)) % HalfBase

\* The exact product of two pairs below 2^56, as a limb sequence.
BigMul(a, b) ==
    [i \in 1..BigLen |->
        IF 2 * i > Len(Halves(a)) + Len(Halves(b)) THEN 0
        ELSE MulDigit(Halves(a), Halves(b), 2 * i - 1)
             + HalfBase * MulDigit(Halves(a), Halves(b), 2 * i)]

\* x * y of f64.
FMul(x, y) ==
    IF IsNaN(x) \/ IsNaN(y) THEN NaN
    ELSE IF x.k = "inf" \/ y.k = "inf"
    THEN (IF x.k = "zero" \/ y.k = "zero" THEN NaN ELSE Inf((x.s + y.s) % 2))
    ELSE IF x.k = "zero" \/ y.k = "zero" THEN Zero((x.s + y.s) % 2)
    ELSE RoundBig((x.s + y.s) % 2, BigMul(x.m, y.m), FALSE, x.e + y.e)

\* Beyond this difference of exponents the smaller operand of a sum is below
\* a quarter of the last bit of the larger and is rounded away.
AlignMax == 60

\* The sum of a * 2^e with sign sa and b * 2^e with sign sb, rounded.
AddAligned(sa, a, sb, b, e) ==
    IF sa = sb THEN RoundBig(sa, BigAdd(a, b), FALSE, e)
    ELSE IF a = b THEN Zero(0)
    ELSE IF BigGeq(a, b) THEN RoundBig(sa, BigSub(a, b), FALSE, e)
    ELSE RoundBig(sb, BigSub(b, a), FALSE, e)

\* x + y of f64.
FAdd(x, y) ==
    IF IsNaN(x) \/ IsNaN(y) THEN NaN
    ELSE IF x.k = "inf" THEN (IF y.k = "inf" /\ y.s # x.s THEN NaN ELSE x)
    ELSE IF y.k = "inf" THEN y
    ELSE IF x.k = "zero" THEN (IF y.k = "zero" /\ y.s # x.s THEN Zero(0) ELSE y)
    ELSE IF y.k = "zero" THEN x
    ELSE IF x.e - y.e > AlignMax THEN x
    ELSE IF y.e - x.e > AlignMax THEN y
    ELSE IF x.e >= y.e
    THEN AddAligned(x.s, BigShl(BigOfW(x.m), x.e - y.e), y.s, BigOfW(y.m), y.e)
    ELSE AddAligned(x.s, BigOfW(x.m), y.s, BigShl(BigOfW(y.m), y.e - x.e), x.e)

\* x - y of f64.
FSub(x, y) == FAdd(x, FNeg(y))

\* x.max(y) of f64: the other operand when one is NaN, else the larger (x
\* when they compare equal).
FMax(x, y) ==
    IF IsNaN(x) THEN y
    ELSE IF IsNaN(y) THEN x
    ELSE IF FLess(x, y) THEN y
    ELSE x

\* x.powi(2) of f64: one rounded multiplication.
Powi2(x) == FMul(x, x)

\* ------------------------------------------------------------------------
\* The vector capabilities the strategies consume (argmin_math)
\* ------------------------------------------------------------------------

\* A gradient or direction is a vector of two f64 components whose values
\* are small integers, held as a pair of integers.  Products, sums and
\* differences of such components are integers far below 2^53 and so are
\* exact in f64: they are computed on the integers.

\* a.sub(b): the elementwise difference, a new vector.
Sub(a, b) == <<a[1] - b[1], a[2] - b[2]>>

\* a.dot(b): the inner product (a zero result is +0.0).
Dot(a, b) == FromInt(a[1] * b[1] + a[2] * b[2])

\* a.norm(): the Euclidean norm, the rounded square root of the sum of the
\* squared components.
Norm(a) == FSqrt(Dot(a, a))

\* ------------------------------------------------------------------------
\* The beta update methods
\* ------------------------------------------------------------------------

\* FletcherReeves::update with the quotient inverted.
FletcherReevesInverted(dfk, dfk1, pk) == FDiv(Dot(dfk, dfk), Dot(dfk1, dfk1))

\* FletcherReeves::update with the numerator dfk1.dot(dfk).
FletcherReevesCross(dfk, dfk1, pk) == FDiv(Dot(dfk1, dfk), Dot(dfk, dfk))

\* FletcherReeves::update with the denominator dfk.dot(pk).
FletcherReevesDirection(dfk, dfk1, pk) == FDiv(Dot(dfk1, dfk1), Dot(dfk, pk))

\* FletcherReeves::update
FletcherReevesUpdate(dfk, dfk1, pk) == FDiv(Dot(dfk1, dfk1), Dot(dfk, dfk))

\* PolakRibiere::update without the powi(2) of the norm.
PolakRibiereNormNotSquared(dfk, dfk1, pk) ==
    FDiv(Dot(dfk1, Sub(dfk1, dfk)), Norm(dfk))

\* PolakRibiere::update
PolakRibiereUpdate(dfk, dfk1, pk) ==
    FDiv(Dot(dfk1, Sub(dfk1, dfk)), Powi2(Norm(dfk)))

\* PolakRibierePlus::update with the clamp written as a comparison, which
\* lets NaN through.
PolakRibierePlusCompared(dfk, dfk1, pk) ==
    IF FLess(FDiv(Dot(dfk1, Sub(dfk1, dfk)), Powi2(Norm(dfk))), Zero(0))
    THEN Zero(0)
    ELSE FDiv(Dot(dfk1, Sub(dfk1, dfk)), Powi2(Norm(dfk)))

\* PolakRibierePlus::update without the clamp.
PolakRibierePlusUnclamped(dfk, dfk1, pk) ==
    FDiv(Dot(dfk1, Sub(dfk1, dfk)), Powi2(Norm(dfk)))

\* PolakRibierePlus::update
PolakRibierePlusUpdate(dfk, dfk1, pk) ==
    FMax(Zero(0), FDiv(Dot(dfk1, Sub(dfk1, dfk)), Powi2(Norm(dfk))))

\* HestenesStiefel::update with the numerator dfk.dot(&d).
HestenesStiefelPrevNumerator(dfk, dfk1, pk) ==
    FDiv(Dot(dfk, Sub(dfk1, dfk)), Dot(Sub(dfk1, dfk), pk))

\* HestenesStiefel::update with the denominator d.dot(dfk).
HestenesStiefelGradientDenominator(dfk, dfk1, pk) ==
    FDiv(Dot(dfk1, Sub(dfk1, dfk)), Dot(Sub(dfk1, dfk), dfk))

\* HestenesStiefel::update
HestenesStiefelUpdate(dfk, dfk1, pk) ==
    FDiv(Dot(dfk1, Sub(dfk1, dfk)), Dot(Sub(dfk1, dfk), pk))

\* ------------------------------------------------------------------------
\* The caller and its calls of update
\* ------------------------------------------------------------------------

\* The caller owns three vectors, which it passes by shared reference:
\* nabla_f_k (the previous gradient), nabla_f_k_p_1 (the new gradient) and
\* p_k (the previous direction); strategies holds the four strategy objects;
\* last is the latest call of update (the strategy, which vector was passed
\* as each argument, the argument values and the value returned), first an
\* earlier call kept for comparison (last.again says that the latest call
\* came after the kept one).
VARIABLES nabla_f_k, nabla_f_k_p_1, p_k, strategies, last, first

vars == <<nabla_f_k, nabla_f_k_p_1, p_k, strategies, last, first>>

\* The largest absolute value of a gradient component.
MaxVal == 2

Components == (0 - MaxVal)..MaxVal

\* The gradients a behaviour of Spec starts from.
Gradients == Components \X Components

\* The previous directions a behaviour of Spec starts from.
Directions == {<<1, 0>>, <<-1, 1>>}

\* The vectors a behaviour of SpecRepeat starts from.
RepeatGradients == {<<1, 1>>, <<2, -1>>}

RepeatDirections == {<<1, 0>>, <<1, 1>>}

StrategyNames == {"FletcherReeves", "PolakRibiere", "PolakRibierePlus", "HestenesStiefel"}

\* A strategy struct has no fields: new() returns the empty struct.
New == <<>>

ZeroVector == <<0, 0>>

NoCall == [s |-> "none", args |-> <<0, 0, 0>>, dfk |-> ZeroVector, dfk1 |-> ZeroVector,
           pk |-> ZeroVector, beta |-> NaN, again |-> FALSE]

\* The caller's vector number i.
Vector(i) == IF i = 1 THEN nabla_f_k ELSE IF i = 2 THEN nabla_f_k_p_1 ELSE p_k

\* update(&nabla_f_k, &nabla_f_k_p_1, &p_k), as the solver calls it.
Canonical == <<1, 2, 3>>

\* The calls of SpecRepeat: the solver's, the one with the previous gradient
\* passed as the previous direction too, and the one with the gradients
\* swapped.
ArgPatterns == {Canonical, <<1, 2, 1>>, <<2, 1, 3>>}

\* A vector after a call that negated it in place.
NegatedInPlace(v) == <<0 - v[1], 0 - v[2]>>

\* What a vector holds after a call that borrowed it by shared reference
\* (&G, &P): update cannot write through the reference.
Borrowed(v) == v

\* What a strategy holds after a call through &self.
BorrowedSelf(obj) == obj

\* update returns beta to the caller; the call is kept in first if track is
\* chosen TRUE and no earlier call was kept.
Return(s, args, beta, tracks) ==
    /\ last' = [s |-> s, args |-> args, dfk |-> Vector(args[1]), dfk1 |-> Vector(args[2]),
                pk |-> Vector(args[3]), beta |-> beta, again |-> first # NoCall]
    /\ \E track \in tracks : first' = IF track /\ first = NoCall THEN last' ELSE first
    /\ nabla_f_k' = Borrowed(nabla_f_k)
    /\ nabla_f_k_p_1' = Borrowed(nabla_f_k_p_1)
    /\ p_k' = Borrowed(p_k)
    /\ strategies' = [strategies EXCEPT ![s] = BorrowedSelf(strategies[s])]

FletcherReeves_update(args, tracks) ==
    Return("FletcherReeves", args,
           FletcherReevesUpdate(Vector(args[1]), Vector(args[2]), Vector(args[3])), tracks)

PolakRibiere_update(args, tracks) ==
    Return("PolakRibiere", args,
           PolakRibiereUpdate(Vector(args[1]), Vector(args[2]), Vector(args[3])), tracks)

PolakRibierePlus_update(args, tracks) ==
    Return("PolakRibierePlus", args,
           PolakRibierePlusUpdate(Vector(args[1]), Vector(args[2]), Vector(args[3])), tracks)

HestenesStiefel_update(args, tracks) ==
    Return("HestenesStiefel", args,
           HestenesStiefelUpdate(Vector(args[1]), Vector(args[2]), Vector(args[3])), tracks)

\* Spec: one call of one strategy's update on each triple of inputs.
Init ==
    /\ nabla_f_k \in Gradients
    /\ nabla_f_k_p_1 \in Gradients
    /\ p_k \in Directions
    /\ strategies = [n \in StrategyNames |-> New]
    /\ last = NoCall
    /\ first = NoCall

CallFletcherReeves == last = NoCall /\ FletcherReeves_update(Canonical, {TRUE})

CallPolakRibiere == last = NoCall /\ PolakRibiere_update(Canonical, {TRUE})

CallPolakRibierePlus == last = NoCall /\ PolakRibierePlus_update(Canonical, {TRUE})

CallHestenesStiefel == last = NoCall /\ HestenesStiefel_update(Canonical, {TRUE})

Next ==
    \/ CallFletcherReeves
    \/ CallPolakRibiere
    \/ CallPolakRibierePlus
    \/ CallHestenesStiefel

Spec == Init /\ [][Next]_vars

\* SpecRepeat: any sequence of calls, of any strategy, on the caller's
\* vectors, the same vector possibly passed as several arguments.
InitRepeat ==
    /\ nabla_f_k \in RepeatGradients
    /\ nabla_f_k_p_1 \in RepeatGradients
    /\ p_k \in RepeatDirections
    /\ strategies = [n \in StrategyNames |-> New]
    /\ last = NoCall
    /\ first = NoCall

RepeatFletcherReeves == \E args \in ArgPatterns : FletcherReeves_update(args, BOOLEAN)

RepeatPolakRibiere == \E args \in ArgPatterns : PolakRibiere_update(args, BOOLEAN)

RepeatPolakRibierePlus == \E args \in ArgPatterns : PolakRibierePlus_update(args, BOOLEAN)

RepeatHestenesStiefel == \E args \in ArgPatterns : HestenesStiefel_update(args, BOOLEAN)

NextRepeat ==
    \/ RepeatFletcherReeves
    \/ RepeatPolakRibiere
    \/ RepeatPolakRibierePlus
    \/ RepeatHestenesStiefel

SpecRepeat == InitRepeat /\ [][NextRepeat]_vars

\* ------------------------------------------------------------------------
\* Properties
\* ------------------------------------------------------------------------

\* x >= y of f64 (false when either side is NaN).
FGeq(x, y) == FLess(y, x) \/ FEq(x, y)

\* The inner product as an integer.
IntDot(a, b) == a[1] * b[1] + a[2] * b[2]

\* The divisor of the division the latest call made.
Denominator(c) ==
    CASE c.s = "FletcherReeves" -> Dot(c.dfk, c.dfk)
      [] c.s = "HestenesStiefel" -> Dot(Sub(c.dfk1, c.dfk), c.pk)
      [] OTHER -> Powi2(Norm(c.dfk))

\* The two calls were given the same argument values.
SameInputs(c, d) == c.dfk = d.dfk /\ c.dfk1 = d.dfk1 /\ c.pk = d.pk

\* C1: for all inputs, also those with a zero denominator, what
\* PolakRibierePlus::update returns is exactly max(0, PolakRibiere::update)
\* on the same inputs (max being the max of f64).
C1_PlusIsClampedPolakRibiere ==
    last.s = "PolakRibierePlus" =>
        last.beta = FMax(Zero(0), PolakRibiereUpdate(last.dfk, last.dfk1, last.pk))

\* PolakRibierePlus was called with both gradients zero (0 / 0) and returned.
C1_Witness ==
    /\ last.s = "PolakRibierePlus"
    /\ last.dfk = ZeroVector
    /\ last.dfk1 = ZeroVector
    /\ IsNaN(PolakRibiereUpdate(last.dfk, last.dfk1, last.pk))

\* C2: whenever the denominator of a strategy's formula is exactly zero,
\* update returns a non-finite value (an infinity or NaN).
C2_ZeroDenominatorIsNonFinite ==
    (last.s # "none" /\ Denominator(last).k = "zero") => ~IsFinite(last.beta)

\* C3: with grad_prev the zero vector, FletcherReeves::update returns
\* +infinity when grad_new is not zero and NaN when grad_new is zero too.
C3_FletcherReevesZeroPrev ==
    (last.s = "FletcherReeves" /\ last.dfk = ZeroVector) =>
        IF last.dfk1 = ZeroVector THEN IsNaN(last.beta) ELSE last.beta = Inf(0)

\* FletcherReeves was called with a zero grad_prev and a non-zero grad_new.
C3_Witness ==
    /\ last.s = "FletcherReeves"
    /\ last.dfk = ZeroVector
    /\ last.dfk1 # ZeroVector
    /\ last.beta.k = "inf"

\* C4: for non-zero grad_prev and grad_new, what FletcherReeves::update
\* returns is >= 0.
C4_FletcherReevesNonNegative ==
    (last.s = "FletcherReeves" /\ last.dfk # ZeroVector /\ last.dfk1 # ZeroVector) =>
        FGeq(last.beta, Zero(0))

\* FletcherReeves was called on two non-zero gradients with negative
\* components and returned a value that is not an integer.
C4_Witness ==
    /\ last.s = "FletcherReeves"
    /\ last.dfk = <<-1, 2>>
    /\ last.dfk1 = <<1, -1>>
    /\ FLess(Zero(0), last.beta)
    /\ FLess(last.beta, FromInt(1))

\* C5: on grad_prev = [1, 0], grad_new = [0, 1], dir_prev = [1, 0] the
\* strategies return FR = 1, PR = 1, PR+ = 1 and HS = -1.
C5_FixedExample ==
    (last.dfk = <<1, 0>> /\ last.dfk1 = <<0, 1>> /\ last.pk = <<1, 0>>) =>
        /\ last.s = "FletcherReeves" => last.beta = FromInt(1)
        /\ last.s = "PolakRibiere" => last.beta = FromInt(1)
        /\ last.s = "PolakRibierePlus" => last.beta = FromInt(1)
        /\ last.s = "HestenesStiefel" => last.beta = FromInt(-1)

\* HestenesStiefel was called on the example.
C5_Witness ==
    /\ last.s = "HestenesStiefel"
    /\ last.dfk = <<1, 0>>
    /\ last.dfk1 = <<0, 1>>
    /\ last.pk = <<1, 0>>
    /\ last.beta.s = 1

C7_ClampedToZero ==
    (last.dfk # ZeroVector /\ IntDot(last.dfk1, Sub(last.dfk1, last.dfk)) < 0) =>
        /\ last.s = "PolakRibiere" => FLess(last.beta, Zero(0))
        /\ last.s = "PolakRibierePlus" =>
              /\ last.beta = Zero(0)
              /\ FLess(PolakRibiereUpdate(last.dfk, last.dfk1, last.pk), last.beta)

\* PolakRibierePlus was called on an input with a negative numerator.
C7_Witness ==
    /\ last.s = "PolakRibierePlus"
    /\ last.dfk # ZeroVector
    /\ IntDot(last.dfk1, Sub(last.dfk1, last.dfk)) < 0
    /\ last.beta = Zero(0)

\* C8: for a non-zero denominator, HestenesStiefel::update returns
\* (grad_new . d) / (d . dir_prev) with d = grad_new - grad_prev.
C8_HestenesStiefelFormula ==
    (last.s = "HestenesStiefel"
        /\ (last.dfk1[1] - last.dfk[1]) * last.pk[1]
            + (last.dfk1[2] - last.dfk[2]) * last.pk[2] # 0) =>
        last.beta =
            FDiv(FromInt(last.dfk1[1] * (last.dfk1[1] - last.dfk[1])
                         + last.dfk1[2] * (last.dfk1[2] - last.dfk[2])),
                 FromInt((last.dfk1[1] - last.dfk[1]) * last.pk[1]
                         + (last.dfk1[2] - last.dfk[2]) * last.pk[2]))

\* HestenesStiefel was called on an input on which grad_prev, grad_new and
\* dir_prev are pairwise different and the quotient is not an integer.
C8_Witness ==
    /\ last.s = "HestenesStiefel"
    /\ last.dfk = <<2, -1>>
    /\ last.dfk1 = <<-1, 1>>
    /\ last.pk = <<1, 0>>
    /\ FLess(last.beta, FromInt(-1))

\* Whether n is the square of an integer.
IsSquare(n) == \E r \in 0..n : r * r = n

\* C9 as stated: for a non-zero grad_prev, PolakRibiere::update returns
\* (grad_new . (grad_new - grad_prev)) / (grad_prev . grad_prev), the
\* denominator of FletcherReeves, so that
\* PR = FR - (grad_new . grad_prev) / (grad_prev . grad_prev).
C9_SameDenominatorAsFletcherReeves ==
    (last.s = "PolakRibiere" /\ last.dfk # ZeroVector) =>
        /\ last.beta = FDiv(Dot(last.dfk1, Sub(last.dfk1, last.dfk)), Dot(last.dfk, last.dfk))
        /\ last.beta = FSub(FletcherReevesUpdate(last.dfk, last.dfk1, last.pk),
                            FDiv(Dot(last.dfk1, last.dfk), Dot(last.dfk, last.dfk)))

\* C9 as amended: for a non-zero grad_prev whose squared norm
\* grad_prev . grad_prev is a perfect square, PolakRibiere::update returns
\* (grad_new . (grad_new - grad_prev)) / (grad_prev . grad_prev).
C9_SquareNormDenominator ==
    (last.s = "PolakRibiere" /\ last.dfk # ZeroVector
        /\ IsSquare(IntDot(last.dfk, last.dfk))) =>
        last.beta = FDiv(FromInt(IntDot(last.dfk1, Sub(last.dfk1, last.dfk))),
                         FromInt(IntDot(last.dfk, last.dfk)))

\* PolakRibiere was called with a grad_prev of norm 2 and returned a negative
\* value that is not an integer.
C9_Witness ==
    /\ last.s = "PolakRibiere"
    /\ last.dfk = <<0, -2>>
    /\ IsSquare(IntDot(last.dfk, last.dfk))
    /\ FLess(last.beta, Zero(0))
    /\ FLess(FromInt(-1), last.beta)

\* C10: two calls of FletcherReeves, PolakRibiere or PolakRibierePlus that
\* differ only in dir_prev return the same value.
C10_IndependentOfDirection ==
    (last.again /\ last.s = first.s /\ last.s # "HestenesStiefel"
        /\ last.dfk = first.dfk /\ last.dfk1 = first.dfk1) =>
        last.beta = first.beta

\* Two calls of PolakRibiere that differ in dir_prev only.
C10_Witness ==
    /\ last.again
    /\ last.s = first.s
    /\ last.s = "PolakRibiere"
    /\ last.dfk = first.dfk
    /\ last.dfk1 = first.dfk1
    /\ last.pk # first.pk
    /\ last.beta.k = "fin"

\* Two calls of HestenesStiefel that differ in dir_prev only and return
\* different values: the state in which HS is seen to depend on dir_prev.
HestenesStiefelDependsOnDirection ==
    /\ last.again
    /\ last.s = first.s
    /\ last.s = "HestenesStiefel"
    /\ last.dfk = first.dfk
    /\ last.dfk1 = first.dfk1
    /\ last.pk # first.pk
    /\ last.beta # first.beta

=============================================================================
